---- MODULE Spec2Model ----
(***************************************************************************)
(* Model of the CGAL toolbox MEX functions of Gerardus:                    *)
(*   cgal_check_self_intersect  (CgalCheckSelfIntersect.cpp)               *)
(*   cgal_closest_trifacet      (CgalClosestTriFacet.cpp)                  *)
(* One behaviour is one call of mexFunction.  The geometry is exact:       *)
(* vertices have integer coordinates and constructed points are rationals  *)
(* kept as homogeneous integer 4-tuples <<X, Y, Z, W>> in lowest terms.    *)
(***************************************************************************)
EXTENDS Integers, Sequences, FiniteSets, TLC

(***************************************************************************)
(* Bounds of the model.                                                    *)
(***************************************************************************)
\* largest number of rows of TRI
MaxTri == 2
\* largest number of entries of ITRI
MaxQuery == 2
\* largest number of rows of XI
MaxPoints == 2

(***************************************************************************)
(* Exact arithmetic on integer vectors (the exact-constructions kernel K). *)
(***************************************************************************)
Abs(x) == IF x < 0 THEN -x ELSE x

RECURSIVE Gcd(_, _)
Gcd(a, b) == IF b = 0 THEN a ELSE Gcd(b, a % b)

Sub(a, b) == <<a[1] - b[1], a[2] - b[2], a[3] - b[3]>>

Cross(a, b) == <<a[2] * b[3] - a[3] * b[2],
                 a[3] * b[1] - a[1] * b[3],
                 a[1] * b[2] - a[2] * b[1]>>

Dot(a, b) == a[1] * b[1] + a[2] * b[2] + a[3] * b[3]

\* a rational point <<X, Y, Z, W>> in lowest terms with W > 0
Norm4(p) ==
    LET g == Gcd(Gcd(Gcd(Abs(p[1]), Abs(p[2])), Abs(p[3])), Abs(p[4]))
        s == IF p[4] < 0 THEN -g ELSE g
    IN  <<p[1] \div s, p[2] \div s, p[3] \div s, p[4] \div s>>

\* Point(x, y, z) of an integer vertex
Pt(v) == <<v[1], v[2], v[3], 1>>

\* the point a + (num / den) * (b - a), den # 0
Lerp(a, b, num, den) ==
    Norm4(<<den * a[1] + num * (b[1] - a[1]),
            den * a[2] + num * (b[2] - a[2]),
            den * a[3] + num * (b[3] - a[3]),
            den>>)

\* supporting-plane normal of triangle U
Normal(U) == Cross(Sub(U[2], U[1]), Sub(U[3], U[1]))

\* K::Triangle_3::is_degenerate(): the three vertices are collinear
IsDegenerate3(U) == Normal(U) = <<0, 0, 0>>

Next3(i) == IF i = 3 THEN 1 ELSE i + 1

\* W * (p - u) for a rational point p (W > 0) and an integer vertex u
Rel(p, u) == <<p[1] - p[4] * u[1], p[2] - p[4] * u[2], p[3] - p[4] * u[3]>>

\* the rational point p lies on the (closed, non-degenerate) triangle U
HasOn(U, p) ==
    LET nU == Normal(U)
    IN  /\ Dot(nU, Rel(p, U[1])) = 0
        /\ \A i \in 1..3 :
             Dot(nU, Cross(Sub(U[Next3(i)], U[i]), Rel(p, U[i]))) >= 0

\* the three edges of a triangle, as pairs of vertices
Edges(T) == {<<T[i], T[Next3(i)]>> : i \in 1..3}

\* Extreme points of T /\ U that lie on the edge [a, b] of T: the point where
\* the edge pierces the plane of U, or, for an edge inside that plane, its end
\* points on U and its crossings with the edges of U.
EdgeTriPoints(a, b, U) ==
    LET nU == Normal(U)
        da == Dot(nU, Sub(a, U[1]))
        db == Dot(nU, Sub(b, U[1]))
        r  == Sub(b, a)
        Crossing(e) ==
            LET q   == Sub(e[2], e[1])
                den == Dot(nU, Cross(r, q))
                tn  == Dot(nU, Cross(Sub(e[1], a), q))
                sn  == Dot(nU, Cross(Sub(e[1], a), r))
                In01(num) == IF den > 0 THEN num >= 0 /\ num <= den
                                        ELSE num <= 0 /\ num >= den
            IN  IF den # 0 /\ In01(tn) /\ In01(sn)
                THEN {Lerp(a, b, tn, den)} ELSE {}
    IN  IF da # db
        THEN IF da * db <= 0 /\ HasOn(U, Lerp(a, b, da, da - db))
             THEN {Lerp(a, b, da, da - db)} ELSE {}
        ELSE IF da # 0 THEN {}
        ELSE {p \in {Pt(a), Pt(b)} : HasOn(U, p)}
             \cup UNION {Crossing(e) : e \in Edges(U)}

\* CGAL::intersection(Triangle_3, Triangle_3) for non-degenerate T and U: the
\* vertices of the convex set T /\ U
IntersectionPoints(T, U) ==
    UNION {EdgeTriPoints(e[1], e[2], U) : e \in Edges(T)}
    \cup UNION {EdgeTriPoints(e[1], e[2], T) : e \in Edges(U)}

\* the type held by the CGAL::Object: Point_3, Segment_3, Triangle_3, or
\* std::vector<Point_3> for a coplanar overlap with more than three vertices
KindOf(pts) ==
    LET c == Cardinality(pts)
    IN  IF c = 0 THEN "none"
        ELSE IF c = 1 THEN "point"
        ELSE IF c = 2 THEN "segment"
        ELSE IF c = 3 THEN "triangle"
        ELSE "polygon"

(***************************************************************************)
(* Inputs of a call.                                                       *)
(***************************************************************************)
\* the X matrix of the calls explored: the 3 x 3 grid of the plane z = 0,
\* one node on each side of it and two nodes beside the grid
Vertices ==
    << <<0, 0, 0>>, <<2, 0, 0>>, <<0, 2, 0>>, <<2, 2, 0>>, <<1, 1, 0>>,
       <<1, 0, 0>>, <<1, 1, 1>>, <<1, 1, -1>>, <<0, 1, 0>>, <<2, 1, 0>>,
       <<1, 2, 0>>, <<3, 0, 1>>, <<3, 1, 1>> >>

\* an element of the double matrix TRI: a number or NaN
NumEntry(v) == [nan |-> FALSE, val |-> v]
NaNEntry == [nan |-> TRUE, val |-> 0]
Row(a, b, c) == <<NumEntry(a), NumEntry(b), NumEntry(c)>>

\* rows of TRI whose entries are nodes of X
ValidRows ==
    { Row(1, 2, 3),     \* A: the lower-left half of the square
      Row(2, 4, 3),     \* shares the edge 2-3 with A
      Row(1, 2, 4),     \* coplanar with A, overlap is a triangle
      Row(1, 4, 6),     \* coplanar with A, overlap is a quadrilateral
      Row(4, 5, 10),    \* touches the interior of an edge of A at node 5
      Row(2, 4, 11),    \* shares only node 2 with A
      Row(2, 4, 5),     \* overlaps half of the edge 2-3 of A
      Row(1, 4, 7),     \* crosses the plane of A
      Row(4, 10, 11),   \* disjoint from A
      Row(1, 1, 2),     \* two identical vertices
      Row(1, 6, 2) }    \* three distinct collinear vertices

\* rows of TRI with an entry that is no node of X
InvalidRows ==
    { Row(0, 1, 2), Row(1, 14, 2), Row(1, 2, -1),
      <<NumEntry(1), NaNEntry, NumEntry(2)>> }

TriRows == ValidRows \cup InvalidRows

\* the TRI matrices of the calls explored: any one or two rows; longer ones
\* are copies of A with at most one other row, in first or second place
Meshes ==
    UNION {{mesh \in [1..m -> TriRows] :
                /\ \A j \in 3..m : mesh[j] = Row(1, 2, 3)
                /\ m >= 3 => Row(1, 2, 3) \in {mesh[1], mesh[2]}} :
           m \in 0..MaxTri}

\* the optional third argument ITRI
Omitted == [provided |-> FALSE, v |-> <<>>]
Provided(q) == [provided |-> TRUE, v |-> q]
Queries(nrows) ==
    {Omitted} \cup
    {Provided(q) : q \in UNION {[1..m -> 0..(nrows + 1)] : m \in 1..MaxQuery}}
\* ITRI omitted or a list of rows of TRI
InRangeQueries(nrows) ==
    {Omitted} \cup
    {Provided(q) : q \in UNION {[1..m -> 1..nrows] : m \in 1..MaxQuery}}
\* ITRI omitted, one triangle, or all the triangles in decreasing order
PlainQueries(nrows) ==
    {Omitted} \cup
    {Provided(<<t>>) : t \in 1..nrows} \cup
    {Provided([j \in 1..nrows |-> nrows + 1 - j]) : m \in {nrows} \cap 1..MaxQuery}

\* lists of test points XI
TestPoints == {<<1, 1, 2>>, <<0, 0, 0>>, <<3, 1, 0>>}
PointLists == UNION {[1..m -> TestPoints] : m \in 0..MaxPoints}

\* the outputs of cgal_closest_trifacet
OutputNames == {"IDX", "D", "P"}

VARIABLES
    fn,             \* the MEX function called
    TRI,            \* prhs[IN_TRI]: the rows of the matrix
    X,              \* prhs[IN_X]: the rows of the matrix
    ITRI,           \* prhs[IN_ITRI]
    XI,             \* prhs[IN_XI]: the rows of the matrix
    ncolsTri,       \* mxGetN(prhs[IN_TRI])
    ncolsX,         \* mxGetN(prhs[IN_X])
    ncolsXi,        \* mxGetN(prhs[IN_XI])
    requested,      \* the outputs with isRequested
    pc,             \* position of the call in mexFunction
    err,            \* message of the mexErrMsgTxt that ended the call
    triangles,      \* std::vector<Triangle>, the rows read so far
    tree,           \* primitives of the AABB tree (iterators into triangles)
    outC,           \* what plhs[OUT_C] holds: "none", "empty" or "vector"
    n,              \* the buffer of plhs[OUT_C]
    itri,           \* std::vector<mwIndex> of triangles to check
    k,              \* itri_it, as a position in itri
    intersections,  \* std::list<Object_and_primitive_id>
    itx,            \* position in intersections
    oob,            \* an element outside triangles / n has been accessed
    accel,          \* the tree has its structure for distance queries
    out,            \* what plhs[OUT_IDX], plhs[OUT_D], plhs[OUT_P] hold
    fbuf,           \* f, the buffer of plhs[OUT_IDX]
    dbuf,           \* d, the buffer of plhs[OUT_D]
    pbuf,           \* p, the buffer of plhs[OUT_P]
    ixi,            \* i, the index of the test point, from 1
    pp              \* pp of the last closest_point_and_primitive, <<>> if none

inputs == <<fn, TRI, X, ITRI, XI, ncolsTri, ncolsX, ncolsXi, requested>>
\* the variables of the loop of cgal_check_self_intersect
check == <<outC, n, itri, k, intersections, itx, oob>>
\* the variables of the loop of cgal_closest_trifacet
closest == <<accel, out, fbuf, dbuf, pbuf, ixi, pp>>
vars == <<inputs, pc, err, triangles, tree, check, closest>>

nrowsTri == Len(TRI)

\* mxIsEmpty(): some dimension of the array is 0
mxIsEmpty(rows, ncols) == Len(rows) = 0 \/ ncols = 0

\* three triangles around node 2 that have nothing else in common
FanMesh == <<Row(1, 2, 3), Row(2, 4, 11), Row(2, 12, 13)>>

\* the two halves of the square
SquareMesh == <<Row(1, 2, 3), Row(2, 4, 3)>>

\* the meshes explored with every list ITRI
QueryMeshes ==
    { <<Row(1, 2, 3)>>, <<Row(1, 1, 2)>>, SquareMesh,
      <<Row(1, 2, 3), Row(1, 2, 4)>>, <<Row(1, 2, 3), Row(1, 4, 6)>>,
      <<Row(1, 2, 3), Row(4, 5, 10)>>, <<Row(1, 2, 3), Row(1, 1, 2)>>,
      <<Row(1, 2, 3), Row(1, 6, 2)>> }

InitCheckSelfIntersect ==
    /\ fn = "cgal_check_self_intersect"
    /\ \/ /\ TRI \in Meshes \ {<<>>}
          /\ X = Vertices
          /\ ncolsTri = 3
          /\ ncolsX = 3
          /\ ITRI \in PlainQueries(Len(TRI))
       \/ /\ TRI \in QueryMeshes
          /\ X = Vertices
          /\ ncolsTri = 3
          /\ ncolsX = 3
          /\ ITRI \in InRangeQueries(Len(TRI))
       \/ /\ TRI \in {<<Row(1, 1, 2)>>, SquareMesh}
          /\ X = Vertices
          /\ ncolsTri = 3
          /\ ncolsX = 3
          /\ ITRI \in Queries(Len(TRI))
       \/ /\ TRI = FanMesh
          /\ X = Vertices
          /\ ncolsTri = 3
          /\ ncolsX = 3
          /\ ITRI = Omitted
       \/ /\ TRI \in {<<>>, <<Row(1, 2, 3)>>}
          /\ X \in {<<>>, Vertices}
          /\ ncolsTri \in {0, 2, 3}
          /\ ncolsX \in {0, 2, 3}
          /\ ITRI = Omitted
    /\ XI = <<>>
    /\ ncolsXi = 3
    /\ requested = {"C"}

InitClosestTrifacet ==
    /\ fn = "cgal_closest_trifacet"
    /\ ITRI = Omitted
    /\ \/ /\ TRI \in Meshes \ {<<>>}
          /\ X = Vertices
          /\ XI \in [1..1 -> TestPoints]
          /\ ncolsTri = 3
          /\ ncolsX = 3
          /\ ncolsXi = 3
          /\ requested = OutputNames
       \/ /\ TRI \in {SquareMesh, FanMesh}
          /\ X = Vertices
          /\ XI \in PointLists \ {<<>>}
          /\ ncolsTri = 3
          /\ ncolsX = 3
          /\ ncolsXi = 3
          /\ requested = OutputNames
       \/ /\ TRI \in {SquareMesh, FanMesh}
          /\ X = Vertices
          /\ XI \in [1..1 -> TestPoints]
          /\ ncolsTri = 3
          /\ ncolsX = 3
          /\ ncolsXi = 3
          /\ requested \in SUBSET OutputNames
       \/ /\ TRI \in {<<>>, <<Row(1, 2, 3)>>}
          /\ X \in {<<>>, Vertices}
          /\ XI \in {<<>>, <<<<1, 1, 2>>>>}
          /\ ncolsTri \in {0, 2, 3}
          /\ ncolsX \in {0, 2, 3}
          /\ ncolsXi \in {0, 2, 3}
          /\ requested = OutputNames

Init ==
    /\ InitCheckSelfIntersect \/ InitClosestTrifacet
    /\ pc = "start"
    /\ err = "none"
    /\ triangles = <<>>
    /\ tree = <<>>
    /\ outC = "none"
    /\ n = <<>>
    /\ itri = <<>>
    /\ k = 1
    /\ intersections = <<>>
    /\ itx = 1
    /\ oob = FALSE
    /\ accel = FALSE
    /\ out = [o \in OutputNames |-> "none"]
    /\ fbuf = <<>>
    /\ dbuf = <<>>
    /\ pbuf = <<>>
    /\ ixi = 1
    /\ pp = <<>>

(***************************************************************************)
(* MatlabImportFilter.                                                     *)
(***************************************************************************)
\* ReadScalarFromMatlab<mwIndex>: the double converted to the unsigned
\* mwIndex.  Values of the upper half of the mwIndex range are represented by
\* negative numbers.  The conversion of NaN is undefined: it gives 0 or the
\* value with only the top bit set.
ReadScalarFromMatlab(e) == IF e.nan THEN {0, -1} ELSE {e.val}

\* mxIsNaN() applied to an mwIndex: the integer converts to a double that is
\* never NaN
mxIsNaN(v) == FALSE

\* the row index of ReadRowVectorFromMatlab is outside the matrix
RowOutOfRange(rows, row) == row < 0 \/ row >= Len(rows)

\* ReadRowVectorFromMatlab<void, Point>(inX, row, def) for a row inside X
ReadRowVectorFromMatlab(rows, row) == rows[row + 1]

\* ReadRowVectorFromMatlab<mwIndex, std::vector<mwIndex> >(inITRI, itriDef)
ReadItri(arg, def) == IF arg.provided THEN arg.v ELSE def

(***************************************************************************)
(* cgal_check_self_intersect: reading the inputs.                          *)
(***************************************************************************)
\* Start with the default list of triangles in decreasing order
StartDefaultDecreasing ==
    /\ fn = "cgal_check_self_intersect"
    /\ pc = "start"
    /\ IF mxIsEmpty(TRI, ncolsTri) \/ mxIsEmpty(X, ncolsX)
       THEN /\ outC' = "empty"
            /\ pc' = "done"
            /\ UNCHANGED <<err, itri>>
       ELSE IF ncolsTri # 3 \/ ncolsX # 3
       THEN /\ err' = "All input arguments must have 3 columns"
            /\ pc' = "error"
            /\ UNCHANGED <<outC, itri>>
       ELSE /\ itri' = ReadItri(ITRI, [j \in 1..nrowsTri |-> nrowsTri + 1 - j])
            /\ pc' = "read"
            /\ UNCHANGED <<outC, err>>
    /\ UNCHANGED <<closest, inputs, triangles, tree, n, k, intersections, itx, oob>>

\* Start with a test that rejects a call in which one of TRI and X is empty
\* and the other is not
StartRejectingMismatch ==
    /\ fn = "cgal_check_self_intersect"
    /\ pc = "start"
    /\ IF mxIsEmpty(TRI, ncolsTri) # mxIsEmpty(X, ncolsX)
       THEN /\ err' = "All input arguments must have 3 columns"
            /\ pc' = "error"
            /\ UNCHANGED <<outC, itri>>
       ELSE IF mxIsEmpty(TRI, ncolsTri)
       THEN /\ outC' = "empty"
            /\ pc' = "done"
            /\ UNCHANGED <<err, itri>>
       ELSE IF ncolsTri # 3 \/ ncolsX # 3
       THEN /\ err' = "All input arguments must have 3 columns"
            /\ pc' = "error"
            /\ UNCHANGED <<outC, itri>>
       ELSE /\ itri' = ReadItri(ITRI, [j \in 1..nrowsTri |-> j])
            /\ pc' = "read"
            /\ UNCHANGED <<outC, err>>
    /\ UNCHANGED <<closest, inputs, triangles, tree, n, k, intersections, itx, oob>>

\* Start that answers a wrong number of columns with a vector of zeros
StartAllZeroOnBadColumns ==
    /\ fn = "cgal_check_self_intersect"
    /\ pc = "start"
    /\ IF mxIsEmpty(TRI, ncolsTri) \/ mxIsEmpty(X, ncolsX)
       THEN /\ outC' = "empty"
            /\ pc' = "done"
            /\ UNCHANGED <<err, itri, n>>
       ELSE IF ncolsTri # 3 \/ ncolsX # 3
       THEN /\ outC' = "vector"
            /\ n' = [j \in 1..nrowsTri |-> 0]
            /\ pc' = "done"
            /\ UNCHANGED <<err, itri>>
       ELSE /\ itri' = ReadItri(ITRI, [j \in 1..nrowsTri |-> j])
            /\ pc' = "read"
            /\ UNCHANGED <<outC, err, n>>
    /\ UNCHANGED <<closest, inputs, triangles, tree, k, intersections, itx, oob>>

\* the empty-input test, the column test and the list of triangles to check
Start ==
    /\ fn = "cgal_check_self_intersect"
    /\ pc = "start"
    /\ IF mxIsEmpty(TRI, ncolsTri) \/ mxIsEmpty(X, ncolsX)
       THEN /\ outC' = "empty"
            /\ pc' = "done"
            /\ UNCHANGED <<err, itri>>
       ELSE IF ncolsTri # 3 \/ ncolsX # 3
       THEN /\ err' = "All input arguments must have 3 columns"
            /\ pc' = "error"
            /\ UNCHANGED <<outC, itri>>
       ELSE /\ itri' = ReadItri(ITRI, [j \in 1..nrowsTri |-> j])
            /\ pc' = "read"
            /\ UNCHANGED <<outC, err>>
    /\ UNCHANGED <<closest, inputs, triangles, tree, n, k, intersections, itx, oob>>

\* ctrlcCheckPoint() placed inside the loop over the intersections as well
CtrlCInsideIteration ==
    /\ \/ pc = "read"
       \/ pc = "loop" /\ k <= Len(itri)
       \/ pc = "records"
       \/ pc = "points" /\ ixi <= Len(XI)
    /\ pc' = "interrupted"
    /\ UNCHANGED <<closest, inputs, err, outC, triangles, tree, n, itri, k,
                   intersections, itx, oob>>

\* ctrlcCheckPoint(): the user pressed Ctrl+C
CtrlC ==
    /\ \/ pc = "read"
       \/ pc = "loop" /\ k <= Len(itri)
       \/ pc = "points" /\ ixi <= Len(XI)
    /\ pc' = "interrupted"
    /\ UNCHANGED <<closest, inputs, err, outC, triangles, tree, n, itri, k,
                   intersections, itx, oob>>

\* ReadTriangle without the test of the row index: a row outside X gives the
\* default point
ReadTriangleUnchecked ==
    /\ pc = "read"
    /\ LET row == TRI[Len(triangles) + 1]
           RowOrDefault(v) == IF RowOutOfRange(X, v - 1) THEN <<0, 0, 0>>
                              ELSE ReadRowVectorFromMatlab(X, v - 1)
       IN  \E v0 \in ReadScalarFromMatlab(row[1]),
              v1 \in ReadScalarFromMatlab(row[2]),
              v2 \in ReadScalarFromMatlab(row[3]) :
             /\ triangles' = Append(triangles, <<RowOrDefault(v0),
                                                 RowOrDefault(v1),
                                                 RowOrDefault(v2)>>)
             /\ pc' = IF Len(triangles) + 1 = nrowsTri THEN "tree" ELSE "read"
             /\ UNCHANGED err
    /\ UNCHANGED <<closest, inputs, outC, tree, n, itri, k, intersections, itx,
                   oob>>

\* ReadTriangle that inserts each triangle into the tree as soon as it is
\* read
ReadTriangleIntoTree ==
    /\ pc = "read"
    /\ LET row == TRI[Len(triangles) + 1]
       IN  \E v0 \in ReadScalarFromMatlab(row[1]),
              v1 \in ReadScalarFromMatlab(row[2]),
              v2 \in ReadScalarFromMatlab(row[3]) :
             IF \/ RowOutOfRange(X, v0 - 1)
                \/ RowOutOfRange(X, v1 - 1)
                \/ RowOutOfRange(X, v2 - 1)
             THEN /\ err' = "Parameter X: row index out of range"
                  /\ pc' = "error"
                  /\ UNCHANGED <<triangles, tree>>
             ELSE /\ triangles' =
                        Append(triangles,
                               <<ReadRowVectorFromMatlab(X, v0 - 1),
                                 ReadRowVectorFromMatlab(X, v1 - 1),
                                 ReadRowVectorFromMatlab(X, v2 - 1)>>)
                  /\ tree' = [j \in 1..(Len(triangles) + 1) |-> j]
                  /\ pc' = IF Len(triangles) + 1 = nrowsTri
                           THEN "tree" ELSE "read"
                  /\ UNCHANGED err
    /\ UNCHANGED <<closest, inputs, outC, n, itri, k, intersections, itx, oob>>

\* one iteration of the loop that reads the mesh
ReadTriangle ==
    /\ pc = "read"
    /\ LET row == TRI[Len(triangles) + 1]
       IN  \E v0 \in ReadScalarFromMatlab(row[1]),
              v1 \in ReadScalarFromMatlab(row[2]),
              v2 \in ReadScalarFromMatlab(row[3]) :
             IF mxIsNaN(v0) \/ mxIsNaN(v1) \/ mxIsNaN(v2)
             THEN /\ err' = "Parameter TRI: Vertex index is NaN"
                  /\ pc' = "error"
                  /\ UNCHANGED triangles
             ELSE IF \/ RowOutOfRange(X, v0 - 1)
                     \/ RowOutOfRange(X, v1 - 1)
                     \/ RowOutOfRange(X, v2 - 1)
             THEN /\ err' = "Parameter X: row index out of range"
                  /\ pc' = "error"
                  /\ UNCHANGED triangles
             ELSE /\ triangles' =
                        Append(triangles,
                               <<ReadRowVectorFromMatlab(X, v0 - 1),
                                 ReadRowVectorFromMatlab(X, v1 - 1),
                                 ReadRowVectorFromMatlab(X, v2 - 1)>>)
                  /\ pc' = IF Len(triangles) + 1 = nrowsTri
                           THEN "tree" ELSE "read"
                  /\ UNCHANGED err
    /\ UNCHANGED <<closest, inputs, outC, tree, n, itri, k, intersections, itx, oob>>

\* BuildTree that leaves the last triangle out of the tree
BuildTreeWithoutLast ==
    /\ pc = "tree"
    /\ tree' = [j \in 1..(Len(triangles) - 1) |-> j]
    /\ pc' = IF fn = "cgal_check_self_intersect" THEN "alloc" ELSE "accel"
    /\ UNCHANGED <<closest, inputs, err, outC, triangles, n, itri, k, intersections,
                   itx, oob>>

\* Tree tree(triangles.begin(), triangles.end())
BuildTree ==
    /\ pc = "tree"
    /\ tree' = [j \in 1..Len(triangles) |-> j]
    /\ pc' = IF fn = "cgal_check_self_intersect" THEN "alloc" ELSE "accel"
    /\ UNCHANGED <<closest, inputs, err, outC, triangles, n, itri, k, intersections,
                   itx, oob>>

\* AllocateOutput with one element per entry of the list itri
AllocateOutputPerQuery ==
    /\ fn = "cgal_check_self_intersect"
    /\ pc = "alloc"
    /\ n' = [j \in 1..Len(itri) |-> 0]
    /\ outC' = "vector"
    /\ k' = 1
    /\ pc' = "loop"
    /\ UNCHANGED <<closest, inputs, err, triangles, tree, itri, intersections, itx,
                   oob>>

\* AllocateColumnVectorInMatlab<double>(outC, nrowsTri): a zeroed vector
AllocateOutput ==
    /\ fn = "cgal_check_self_intersect"
    /\ pc = "alloc"
    /\ n' = [j \in 1..nrowsTri |-> 0]
    /\ outC' = "vector"
    /\ k' = 1
    /\ pc' = "loop"
    /\ UNCHANGED <<closest, inputs, err, triangles, tree, itri, intersections, itx,
                   oob>>

(***************************************************************************)
(* cgal_check_self_intersect: the loop over the triangles to check.        *)
(***************************************************************************)
\* the test of the loop for degenerated triangles
HasEqualVertices(T) == T[1] = T[2] \/ T[1] = T[3] \/ T[2] = T[3]

\* *itri_it is no row of TRI
IndexOutOfRange(idx) == idx < 1 \/ idx > Len(triangles)

\* what the exact intersection of t with primitive u gives
ExactRecord(t, u) ==
    LET pts == IntersectionPoints(triangles[t], triangles[u])
    IN  [kind |-> KindOf(pts), pts |-> pts, prim |-> u]

\* the kernel is used outside its precondition: a triangle is degenerate
Undefined(t, u) == IsDegenerate3(triangles[t]) \/ IsDegenerate3(triangles[u])

\* what an intersection computed outside the precondition may give
UndefinedRecords(u) ==
    { [kind |-> "none", pts |-> {}, prim |-> u],
      [kind |-> "point", pts |-> {Pt(triangles[u][1])}, prim |-> u],
      [kind |-> "triangle", pts |-> {Pt(triangles[u][j]) : j \in 1..3},
       prim |-> u] }

RecordsOf(t, u) ==
    IF Undefined(t, u) THEN UndefinedRecords(u) ELSE {ExactRecord(t, u)}

\* the records kept by the back inserter, in the order of the primitives
RECURSIVE Kept(_, _)
Kept(f, u) ==
    IF u > Len(tree) THEN <<>>
    ELSE IF f[u].kind = "none" THEN Kept(f, u + 1)
    ELSE <<f[u]>> \o Kept(f, u + 1)

\* the lists tree.all_intersections(*it, ...) can give for triangle t
AllIntersections(t) ==
    LET all == UNION {RecordsOf(t, u) : u \in 1..Len(tree)}
    IN  {Kept(f, 1) : f \in {g \in [1..Len(tree) -> all] :
                               \A u \in 1..Len(tree) : g[u] \in RecordsOf(t, u)}}

\* the query can end the process (failed precondition, segfault)
MayCrash(t) == \E u \in 1..Len(tree) : Undefined(t, u)

\* end points of a Segment_3 record
SegA(op) == CHOOSE p \in op.pts : TRUE
SegB(op) == CHOOSE p \in op.pts : p # SegA(op)

\* p is one of the three vertices of triangle T
IsVertex(p, T) == p = Pt(T[1]) \/ p = Pt(T[2]) \/ p = Pt(T[3])

\* IsSharedEdge with the tests on the intersected triangle left out
IsEdgeOfCurrent(op, T, U) ==
    /\ IsVertex(SegA(op), T)
    /\ IsVertex(SegB(op), T)

\* the segment is an edge of both triangles
IsSharedEdge(op, T, U) ==
    /\ IsVertex(SegA(op), T)
    /\ IsVertex(SegB(op), T)
    /\ IsVertex(SegA(op), U)
    /\ IsVertex(SegB(op), U)

\* IsSharedVertex with the test on the intersected triangle left out
IsVertexOfCurrent(op, T, U) ==
    LET point == CHOOSE p \in op.pts : TRUE
    IN  IsVertex(point, T)

\* the point is a vertex of both triangles
IsSharedVertex(op, T, U) ==
    LET point == CHOOSE p \in op.pts : TRUE
    IN  IsVertex(point, T) /\ IsVertex(point, U)

\* Classify that adds one for every point of the record that is not a vertex
\* of both triangles
ClassifyByVertices(op, T) ==
    Cardinality({p \in op.pts :
                    ~(IsVertex(p, T) /\ IsVertex(p, triangles[op.prim]))})
    + (IF op.kind = "triangle" THEN 1 ELSE 0)

\* Classify with the tests for a shared edge and a shared vertex made on the
\* checked triangle only
ClassifyFromCurrentOnly(op, T) ==
    LET U == triangles[op.prim]
        triangleCase == IF op.kind = "triangle" THEN 1 ELSE 0
        segmentCase ==
            IF op.kind = "segment" /\ ~IsEdgeOfCurrent(op, T, U) THEN 1 ELSE 0
        pointCase ==
            IF op.kind = "point" /\ ~IsVertexOfCurrent(op, T, U) THEN 1 ELSE 0
    IN  triangleCase + segmentCase + pointCase

\* what the body of the loop over the intersections adds to n[idx] for record
\* op of triangle T: the three CGAL::assign tests in turn
Classify(op, T) ==
    LET U == triangles[op.prim]
        triangleCase == IF op.kind = "triangle" THEN 1 ELSE 0
        segmentCase ==
            IF op.kind = "segment" /\ ~IsSharedEdge(op, T, U) THEN 1 ELSE 0
        pointCase ==
            IF op.kind = "point" /\ ~IsSharedVertex(op, T, U) THEN 1 ELSE 0
    IN  triangleCase + segmentCase + pointCase

\* idx = *itri_it - 1 is outside triangles: `it` and n[idx] are outside their
\* arrays.  The process dies, or goes on with the buffer n as it was.
OutOfRangeQuery ==
    /\ pc = "loop"
    /\ k <= Len(itri)
    /\ IndexOutOfRange(itri[k])
    /\ oob' = TRUE
    /\ \/ pc' = "crashed" /\ UNCHANGED k
       \/ pc' = "loop" /\ k' = k + 1
    /\ UNCHANGED <<closest, inputs, err, outC, triangles, tree, n, itri, intersections,
                   itx>>

\* a triangle with two equal vertices: count one intersection and continue
SkipDegenerate ==
    /\ pc = "loop"
    /\ k <= Len(itri)
    /\ ~IndexOutOfRange(itri[k])
    /\ HasEqualVertices(triangles[itri[k]])
    /\ n' = [n EXCEPT ![itri[k]] = @ + 1]
    /\ k' = k + 1
    /\ UNCHANGED <<closest, inputs, pc, err, outC, triangles, tree, itri,
                   intersections, itx, oob>>

\* QueryTree that tests the triangle only against the triangles of the list
\* itri
QueryTreeAmongQueried ==
    /\ pc = "loop"
    /\ k <= Len(itri)
    /\ ~IndexOutOfRange(itri[k])
    /\ ~HasEqualVertices(triangles[itri[k]])
    /\ \/ /\ intersections' \in
                {SelectSeq(l, LAMBDA r :
                                  \E j \in 1..Len(itri) : itri[j] = r.prim) :
                    l \in AllIntersections(itri[k])}
          /\ itx' = 1
          /\ pc' = "records"
       \/ /\ MayCrash(itri[k])
          /\ pc' = "crashed"
          /\ UNCHANGED <<intersections, itx>>
    /\ UNCHANGED <<closest, inputs, err, outC, triangles, tree, n, itri, k, oob>>

\* QueryTree without intersections.clear(): the back inserter appends the
\* records to those of the triangles checked before
QueryTreeWithoutClear ==
    /\ pc = "loop"
    /\ k <= Len(itri)
    /\ ~IndexOutOfRange(itri[k])
    /\ ~HasEqualVertices(triangles[itri[k]])
    /\ \/ /\ intersections' \in
                {intersections \o l : l \in AllIntersections(itri[k])}
          /\ itx' = 1
          /\ pc' = "records"
       \/ /\ MayCrash(itri[k])
          /\ pc' = "crashed"
          /\ UNCHANGED <<intersections, itx>>
    /\ UNCHANGED <<closest, inputs, err, outC, triangles, tree, n, itri, k, oob>>

\* intersections.clear(); tree.all_intersections(*it, ...)
QueryTree ==
    /\ pc = "loop"
    /\ k <= Len(itri)
    /\ ~IndexOutOfRange(itri[k])
    /\ ~HasEqualVertices(triangles[itri[k]])
    /\ \/ /\ intersections' \in AllIntersections(itri[k])
          /\ itx' = 1
          /\ pc' = "records"
       \/ /\ MayCrash(itri[k])
          /\ pc' = "crashed"
          /\ UNCHANGED <<intersections, itx>>
    /\ UNCHANGED <<closest, inputs, err, outC, triangles, tree, n, itri, k, oob>>

\* ClassifyRecord with the count stored at the position of the triangle in
\* the list itri instead of at the index of the triangle
ClassifyRecordByPosition ==
    /\ pc = "records"
    /\ itx <= Len(intersections)
    /\ n' = [n EXCEPT ![k] =
                @ + Classify(intersections[itx], triangles[itri[k]])]
    /\ itx' = itx + 1
    /\ UNCHANGED <<closest, inputs, pc, err, outC, triangles, tree, itri, k,
                   intersections, oob>>

\* ClassifyRecord with the count given to the triangle that is intersected
ClassifyRecordAtPrimitive ==
    /\ pc = "records"
    /\ itx <= Len(intersections)
    /\ n' = [n EXCEPT ![intersections[itx].prim] =
                @ + Classify(intersections[itx], triangles[itri[k]])]
    /\ itx' = itx + 1
    /\ UNCHANGED <<closest, inputs, pc, err, outC, triangles, tree, itri, k,
                   intersections, oob>>

\* ClassifyRecord that does not move on to the next record
ClassifyRecordStuck ==
    /\ pc = "records"
    /\ itx <= Len(intersections)
    /\ UNCHANGED vars

\* one iteration of the loop over the intersections
ClassifyRecord ==
    /\ pc = "records"
    /\ itx <= Len(intersections)
    /\ n' = [n EXCEPT ![itri[k]] =
                @ + Classify(intersections[itx], triangles[itri[k]])]
    /\ itx' = itx + 1
    /\ UNCHANGED <<closest, inputs, pc, err, outC, triangles, tree, itri, k,
                   intersections, oob>>

\* DiscountSelf without the subtraction
DiscountNothing ==
    /\ pc = "records"
    /\ itx > Len(intersections)
    /\ k' = k + 1
    /\ pc' = "loop"
    /\ UNCHANGED <<closest, inputs, err, outC, triangles, tree, n, itri,
                   intersections, itx, oob>>

\* n[idx] -= 1 after the loop over the intersections
DiscountSelf ==
    /\ pc = "records"
    /\ itx > Len(intersections)
    /\ n' = [n EXCEPT ![itri[k]] = @ - 1]
    /\ k' = k + 1
    /\ pc' = "loop"
    /\ UNCHANGED <<closest, inputs, err, outC, triangles, tree, itri, intersections,
                   itx, oob>>

\* the end of mexFunction
Finish ==
    /\ pc = "loop"
    /\ k > Len(itri)
    /\ pc' = "done"
    /\ UNCHANGED <<closest, inputs, err, outC, triangles, tree, n, itri, k,
                   intersections, itx, oob>>

(***************************************************************************)
(* cgal_closest_trifacet.                                                  *)
(***************************************************************************)
\* a rational number <<num, den>>, den > 0, in lowest terms
NormQ(num, den) == LET g == Gcd(Abs(num), den) IN <<num \div g, den \div g>>

\* the squared distance between the rational point a and the vertex q
SquaredDistance(a, q) == NormQ(Dot(Rel(a, q), Rel(a, q)), a[4] * a[4])

\* r1 <= r2 for rational numbers
LessEq(r1, r2) == r1[1] * r2[2] <= r2[1] * r1[2]

\* the point of the segment [a, b] closest to q
ClosestOnSegment(a, b, q) ==
    LET den == Dot(Sub(b, a), Sub(b, a))
        num == Dot(Sub(q, a), Sub(b, a))
    IN  IF den = 0 \/ num <= 0 THEN Pt(a)
        ELSE IF num >= den THEN Pt(b)
        ELSE Lerp(a, b, num, den)

\* the orthogonal projection of q on the plane of the triangle U
ProjectOnPlane(U, q) ==
    LET nU == Normal(U)
        nn == Dot(nU, nU)
        s  == Dot(nU, Sub(q, U[1]))
    IN  Norm4(<<nn * q[1] - s * nU[1], nn * q[2] - s * nU[2],
                nn * q[3] - s * nU[3], nn>>)

\* the point of the triangle U closest to q
ClosestOnTriangle(U, q) ==
    IF ~IsDegenerate3(U) /\ HasOn(U, ProjectOnPlane(U, q))
    THEN ProjectOnPlane(U, q)
    ELSE LET onEdges == {ClosestOnSegment(e[1], e[2], q) : e \in Edges(U)}
         IN  CHOOSE a \in onEdges : \A b \in onEdges :
                 LessEq(SquaredDistance(a, q), SquaredDistance(b, q))

\* tree.closest_point_and_primitive(xi): the pairs <<point, primitive>> the
\* query can return; primitives at the same distance are returned in an
\* order that depends on the traversal of the tree
ClosestPointAndPrimitive(q) ==
    LET near(u) == ClosestOnTriangle(triangles[u], q)
    IN  {<<near(u), u>> : u \in
            {v \in 1..Len(tree) : \A w \in 1..Len(tree) :
                LessEq(SquaredDistance(near(v), q),
                       SquaredDistance(near(w), q))}}

\* the distance query can end the process: a primitive is degenerate
MayCrashClosest == \E u \in 1..Len(tree) : IsDegenerate3(triangles[u])

\* StartClosest with XI left out of the test for empty inputs
StartClosestIgnoringXi ==
    /\ fn = "cgal_closest_trifacet"
    /\ pc = "start"
    /\ IF mxIsEmpty(TRI, ncolsTri) \/ mxIsEmpty(X, ncolsX)
       THEN /\ out' = [o \in OutputNames |-> "empty"]
            /\ pc' = "done"
            /\ UNCHANGED err
       ELSE IF ncolsTri # 3 \/ ncolsX # 3 \/ ncolsXi # 3
       THEN /\ err' = "All input arguments must have 3 columns"
            /\ pc' = "error"
            /\ UNCHANGED out
       ELSE /\ pc' = "read"
            /\ UNCHANGED <<out, err>>
    /\ UNCHANGED <<inputs, triangles, tree, check, accel, fbuf, dbuf, pbuf, ixi,
                   pp>>

\* the empty-input test and the column test
StartClosest ==
    /\ fn = "cgal_closest_trifacet"
    /\ pc = "start"
    /\ IF \/ mxIsEmpty(TRI, ncolsTri)
          \/ mxIsEmpty(X, ncolsX)
          \/ mxIsEmpty(XI, ncolsXi)
       THEN /\ out' = [o \in OutputNames |-> "empty"]
            /\ pc' = "done"
            /\ UNCHANGED err
       ELSE IF ncolsTri # 3 \/ ncolsX # 3 \/ ncolsXi # 3
       THEN /\ err' = "All input arguments must have 3 columns"
            /\ pc' = "error"
            /\ UNCHANGED out
       ELSE /\ pc' = "read"
            /\ UNCHANGED <<out, err>>
    /\ UNCHANGED <<inputs, triangles, tree, check, accel, fbuf, dbuf, pbuf, ixi,
                   pp>>

\* AccelerateDistanceQueries that goes on without the structure when it
\* cannot be allocated
AccelerateSilently ==
    /\ pc = "accel"
    /\ \/ accel' = TRUE
       \/ UNCHANGED accel
    /\ pc' = "outputs"
    /\ UNCHANGED <<inputs, err, triangles, tree, check, out, fbuf, dbuf, pbuf,
                   ixi, pp>>

\* tree.accelerate_distance_queries()
AccelerateDistanceQueries ==
    /\ pc = "accel"
    /\ \/ /\ accel' = TRUE
          /\ pc' = "outputs"
          /\ UNCHANGED err
       \/ /\ err' = "Not enough memory to accelerate distance queries"
          /\ pc' = "error"
          /\ UNCHANGED accel
    /\ UNCHANGED <<inputs, triangles, tree, check, out, fbuf, dbuf, pbuf, ixi,
                   pp>>

\* the allocation of the outputs that are requested
AllocateClosestOutputs ==
    /\ pc = "outputs"
    /\ out' = [o \in OutputNames |->
                  IF o \in requested THEN "array" ELSE out[o]]
    /\ fbuf' = IF "IDX" \in requested THEN [j \in 1..Len(XI) |-> 0] ELSE fbuf
    /\ dbuf' = IF "D" \in requested
               THEN [j \in 1..Len(XI) |-> <<0, 1>>] ELSE dbuf
    /\ pbuf' = IF "P" \in requested
               THEN [j \in 1..Len(XI) |-> <<0, 0, 0, 1>>] ELSE pbuf
    /\ ixi' = 1
    /\ pc' = "points"
    /\ UNCHANGED <<inputs, err, triangles, tree, check, accel, pp>>

\* ClosestFacet with the index of the facet left in the C++ convention
\* (without the + 1)
ClosestFacetZeroBased ==
    /\ pc = "points"
    /\ ixi <= Len(XI)
    /\ \/ /\ \E res \in ClosestPointAndPrimitive(XI[ixi]) :
                /\ pp' = res
                /\ fbuf' = IF "IDX" \in requested
                           THEN [fbuf EXCEPT ![ixi] = res[2] - 1] ELSE fbuf
                /\ dbuf' = IF "D" \in requested
                           THEN [dbuf EXCEPT ![ixi] =
                                    SquaredDistance(res[1], XI[ixi])]
                           ELSE dbuf
                /\ pbuf' = IF "P" \in requested
                           THEN [pbuf EXCEPT ![ixi] = res[1]] ELSE pbuf
          /\ ixi' = ixi + 1
          /\ UNCHANGED pc
       \/ /\ MayCrashClosest
          /\ pc' = "crashed"
          /\ UNCHANGED <<fbuf, dbuf, pbuf, ixi, pp>>
    /\ UNCHANGED <<inputs, err, triangles, tree, check, accel, out>>

\* one iteration of the loop over the test points; d[i] holds the square of
\* the distance
ClosestFacet ==
    /\ pc = "points"
    /\ ixi <= Len(XI)
    /\ \/ /\ \E res \in ClosestPointAndPrimitive(XI[ixi]) :
                /\ pp' = res
                /\ fbuf' = IF "IDX" \in requested
                           THEN [fbuf EXCEPT ![ixi] = res[2]] ELSE fbuf
                /\ dbuf' = IF "D" \in requested
                           THEN [dbuf EXCEPT ![ixi] =
                                    SquaredDistance(res[1], XI[ixi])]
                           ELSE dbuf
                /\ pbuf' = IF "P" \in requested
                           THEN [pbuf EXCEPT ![ixi] = res[1]] ELSE pbuf
          /\ ixi' = ixi + 1
          /\ UNCHANGED pc
       \/ /\ MayCrashClosest
          /\ pc' = "crashed"
          /\ UNCHANGED <<fbuf, dbuf, pbuf, ixi, pp>>
    /\ UNCHANGED <<inputs, err, triangles, tree, check, accel, out>>

\* the end of mexFunction
FinishClosest ==
    /\ pc = "points"
    /\ ixi > Len(XI)
    /\ pc' = "done"
    /\ UNCHANGED <<inputs, err, triangles, tree, check, closest>>

Next ==
    \/ Start
    \/ CtrlC
    \/ ReadTriangle
    \/ BuildTree
    \/ AllocateOutput
    \/ OutOfRangeQuery
    \/ SkipDegenerate
    \/ QueryTree
    \/ ClassifyRecord
    \/ DiscountSelf
    \/ Finish
    \/ StartClosest
    \/ AccelerateDistanceQueries
    \/ AllocateClosestOutputs
    \/ ClosestFacet
    \/ FinishClosest

\* the call runs on while it has a step to take
FairSpec == Init /\ [][Next]_vars /\ WF_vars(Next)

Spec == Init /\ [][Next]_vars

(***************************************************************************)
(* Vocabulary of the properties.                                           *)
(***************************************************************************)
\* the three vertices of a triangle, as points
VertexPoints(T) == {Pt(T[1]), Pt(T[2]), Pt(T[3])}

\* how many entries of the list q are i
Occurrences(q, i) == Cardinality({j \in 1..Len(q) : q[j] = i})

\* every entry of the list of triangles to check is a row of TRI
QueryInRange == \A j \in 1..Len(itri) : itri[j] \in 1..nrowsTri

\* the mesh has been read completely
MeshRead == Len(triangles) = nrowsTri /\ nrowsTri > 0

\* checking triangle t stays inside the precondition of the kernel
KernelDefined(t) ==
    \/ HasEqualVertices(triangles[t])
    \/ \A u \in 1..Len(triangles) : ~Undefined(t, u)

\* the call returned with the vector of counts
Returned == pc = "done" /\ outC = "vector"

\* the sum of f over 1..m
RECURSIVE SumTo(_, _)
SumTo(f, m) == IF m = 0 THEN 0 ELSE f[m] + SumTo(f, m - 1)

\* what checking triangle t once adds to its count
PerQuery(t) ==
    IF HasEqualVertices(triangles[t]) THEN 1
    ELSE SumTo([u \in 1..Len(triangles) |->
                    Classify(ExactRecord(t, u), triangles[t])],
               Len(triangles)) - 1

\* the counts after checking the triangles of list q, one after the other
RECURSIVE RunQueries(_)
RunQueries(q) ==
    IF q = <<>> THEN [j \in 1..nrowsTri |-> 0]
    ELSE [RunQueries(SubSeq(q, 1, Len(q) - 1)) EXCEPT
              ![q[Len(q)]] = @ + PerQuery(q[Len(q)])]

\* the lists that are permutations of q
ListPermutations(q) ==
    {[j \in 1..Len(q) |-> q[p[j]]] :
        p \in {f \in [1..Len(q) -> 1..Len(q)] :
                  \A a, b \in 1..Len(q) : a # b => f[a] # f[b]}}

(***************************************************************************)
(* C1.  As claimed: the output has one value per entry of the query list,  *)
(* in the order of the list: output[j] is the count of triangle Q[j].      *)
(***************************************************************************)
C1_OutputFollowsQueryList ==
    (Returned /\ QueryInRange /\ \A j \in 1..Len(itri) : KernelDefined(itri[j]))
        => /\ Len(n) = Len(itri)
           /\ \A j \in 1..Len(itri) : n[j] = PerQuery(itri[j])

\* C1, amended: the output has one value per triangle of the mesh, element i
\* belongs to triangle i, and permuting the query list leaves the output
\* unchanged: it is what checking any permutation of the list gives.
C1_OutputIndexedByTriangle ==
    (Returned /\ QueryInRange /\ \A j \in 1..Len(itri) : KernelDefined(itri[j]))
        => /\ Len(n) = nrowsTri
           /\ \A q \in ListPermutations(itri) : n = RunQueries(q)

\* a call with two different triangles checked in decreasing order returned
C1_Witness ==
    /\ Returned
    /\ nrowsTri = 2
    /\ itri = <<2, 1>>
    /\ ~IsDegenerate3(triangles[1])
    /\ ~IsDegenerate3(triangles[2])
    /\ n[1] > 0

C3_OutOfRangeQueryRejected ==
    ~QueryInRange
        => /\ ~oob
           /\ pc # "done"
           /\ n = [j \in 1..Len(n) |-> 0]

(***************************************************************************)
(* C4.  As claimed: in both functions a vertex index of TRI that is 0,     *)
(* negative, NaN or greater than the number of rows of X raises a fatal    *)
(* error and the call never returns a result.                              *)
(***************************************************************************)
\* the entry of TRI is the index of a row of X
EntryIsNode(e) == ~e.nan /\ e.val >= 1 /\ e.val <= Len(X)
RowIsValid(row) == \A c \in 1..3 : EntryIsNode(row[c])
NoInputEmpty ==
    /\ ~mxIsEmpty(TRI, ncolsTri)
    /\ ~mxIsEmpty(X, ncolsX)
    /\ fn = "cgal_closest_trifacet" => ~mxIsEmpty(XI, ncolsXi)
NoOutput == outC = "none" /\ \A o \in OutputNames : out[o] = "none"

C4_InvalidVertexIndexIsError ==
    (ncolsTri = 3 /\ \E j \in 1..nrowsTri : ~RowIsValid(TRI[j]))
        => pc # "done"

\* C4, amended: when no input is empty (the test for empty inputs comes
\* first and returns empty outputs), a row of TRI with such an index is never
\* turned into a triangle: the reading stops at it with an error, before the
\* tree is built and before an output exists.
C4_InvalidVertexIndexStopsReading ==
    \A j \in 1..nrowsTri :
        (NoInputEmpty /\ ncolsTri = 3 /\ ~RowIsValid(TRI[j]))
            => /\ Len(triangles) < j
               /\ tree = <<>>
               /\ NoOutput
               /\ pc \in {"start", "read", "error", "interrupted"}
               /\ pc = "error" =>
                     err \in {"Parameter X: row index out of range",
                              "Parameter TRI: Vertex index is NaN",
                              "All input arguments must have 3 columns"}

\* cgal_closest_trifacet stopped with an error at a NaN in the second row
C4_Witness ==
    /\ fn = "cgal_closest_trifacet"
    /\ nrowsTri = 2
    /\ TRI[2][2].nan
    /\ Len(triangles) = 1
    /\ pc = "error"

(***************************************************************************)
(* C5.  As claimed: two non-degenerate coplanar triangles whose            *)
(* intersection is an area, whatever its shape, both get a count >= 1 when *)
(* both are checked.                                                       *)
(***************************************************************************)
OverlapInArea(t, u) ==
    /\ ~IsDegenerate3(triangles[t])
    /\ ~IsDegenerate3(triangles[u])
    /\ Cardinality(IntersectionPoints(triangles[t], triangles[u])) >= 3

C5_AreaOverlapCounted ==
    (Returned /\ QueryInRange) =>
        \A t, u \in 1..nrowsTri :
            (/\ t # u
             /\ OverlapInArea(t, u)
             /\ Occurrences(itri, t) >= 1
             /\ Occurrences(itri, u) >= 1)
                => n[t] >= 1 /\ n[u] >= 1

(***************************************************************************)
(* C6.  As claimed: a checked triangle with two identical vertices gets    *)
(* count exactly 1, whatever the mesh and the other entries of the list.   *)
(***************************************************************************)
C6_DegenerateCountsOne ==
    (Returned /\ QueryInRange) =>
        \A t \in 1..nrowsTri :
            (HasEqualVertices(triangles[t]) /\ Occurrences(itri, t) >= 1)
                => n[t] = 1

(***************************************************************************)
(* C7.  As claimed: the final count of a checked non-degenerate triangle   *)
(* is the number of other triangles whose intersection with it is genuine: *)
(* an area, a segment that is no shared edge, a point that is no shared    *)
(* vertex.                                                                 *)
(***************************************************************************)
GenuineOverlap(t, u) ==
    LET pts == IntersectionPoints(triangles[t], triangles[u])
        common == VertexPoints(triangles[t]) \cap VertexPoints(triangles[u])
    IN  \/ Cardinality(pts) >= 3
        \/ Cardinality(pts) \in {1, 2} /\ ~(pts \subseteq common)

C7_CountIsNumberOfGenuineOthers ==
    (Returned /\ QueryInRange /\ \A u \in 1..nrowsTri : ~IsDegenerate3(triangles[u]))
        => \A t \in 1..nrowsTri :
              Occurrences(itri, t) >= 1 =>
                 n[t] = Cardinality({u \in 1..nrowsTri \ {t} : GenuineOverlap(t, u)})

Classifies(kind) ==
    /\ pc = "records"
    /\ itx <= Len(intersections)
    /\ intersections[itx].kind = kind
    /\ itx' = itx + 1

\* the points of the record are vertices of both triangles
OnCommonVertices(op, t) ==
    op.pts \subseteq
        (VertexPoints(triangles[t]) \cap VertexPoints(triangles[op.prim]))

ShareOneEdgeOnly(t, u) ==
    LET pts == IntersectionPoints(triangles[t], triangles[u])
    IN  /\ Cardinality(pts) = 2
        /\ pts \subseteq VertexPoints(triangles[t])
        /\ pts \subseteq VertexPoints(triangles[u])

C9_SegmentRule ==
    /\ [][Classifies("segment") =>
            n'[itri[k]] - n[itri[k]] =
                IF OnCommonVertices(intersections[itx], itri[k]) THEN 0 ELSE 1]_vars
    /\ []((/\ Returned
            /\ QueryInRange
            /\ nrowsTri = 2
            /\ ~IsDegenerate3(triangles[1])
            /\ ~IsDegenerate3(triangles[2])
            /\ ShareOneEdgeOnly(1, 2))
              => n = <<0, 0>>)

\* the two halves of the square, both checked, both with count 0
C9_Witness ==
    /\ Returned
    /\ nrowsTri = 2
    /\ Occurrences(itri, 1) = 1
    /\ Occurrences(itri, 2) = 1
    /\ ~IsDegenerate3(triangles[1])
    /\ ~IsDegenerate3(triangles[2])
    /\ ShareOneEdgeOnly(1, 2)
    /\ n = <<0, 0>>

(***************************************************************************)
(* C10.  A point record of checked triangle T with triangle U is not       *)
(* counted if and only if the point is a vertex of T and a vertex of U;    *)
(* any other point record adds exactly 1.  The triangles of a fan around   *)
(* one common vertex, with nothing else in common, all get count 0.        *)
(***************************************************************************)
IsFan ==
    /\ nrowsTri >= 2
    /\ \A t \in 1..nrowsTri : ~IsDegenerate3(triangles[t])
    /\ \E c \in VertexPoints(triangles[1]) :
          /\ \A t \in 1..nrowsTri : c \in VertexPoints(triangles[t])
          /\ \A t, u \in 1..nrowsTri :
                t # u => IntersectionPoints(triangles[t], triangles[u]) = {c}

C10_PointRule ==
    /\ [][Classifies("point") =>
            n'[itri[k]] - n[itri[k]] =
                IF OnCommonVertices(intersections[itx], itri[k]) THEN 0 ELSE 1]_vars
    /\ []((Returned /\ QueryInRange /\ IsFan)
              => \A t \in 1..nrowsTri : n[t] = 0)

\* a fan of three triangles, all checked, all with count 0
C10_Witness ==
    /\ Returned
    /\ nrowsTri = 3
    /\ IsFan
    /\ itri = <<1, 2, 3>>
    /\ n = <<0, 0, 0>>

(***************************************************************************)
(* C11.  If TRI or X is empty (for cgal_closest_trifacet also if XI is     *)
(* empty) the call returns empty outputs and raises no error, whatever the *)
(* shape of the other inputs: the first step of the call ends it, with     *)
(* every output empty (all three of cgal_closest_trifacet).                *)
(***************************************************************************)
SomeInputEmpty ==
    \/ mxIsEmpty(TRI, ncolsTri)
    \/ mxIsEmpty(X, ncolsX)
    \/ fn = "cgal_closest_trifacet" /\ mxIsEmpty(XI, ncolsXi)

\* the call returned empty arrays in all its outputs and has done nothing else
ReturnedEmpty ==
    /\ pc = "done"
    /\ err = "none"
    /\ fn = "cgal_check_self_intersect" => outC = "empty"
    /\ fn = "cgal_closest_trifacet" => \A o \in OutputNames : out[o] = "empty"
    /\ triangles = <<>>
    /\ tree = <<>>
    /\ n = <<>>
    /\ fbuf = <<>> /\ dbuf = <<>> /\ pbuf = <<>> /\ pp = <<>>

C11_EmptyInputGivesEmptyOutput ==
    SomeInputEmpty => (pc = "start" \/ ReturnedEmpty)

\* cgal_closest_trifacet returned empty outputs for an empty XI and a TRI
\* that has two columns
C11_Witness ==
    /\ fn = "cgal_closest_trifacet"
    /\ XI = <<>>
    /\ TRI # <<>> /\ X # <<>>
    /\ ncolsTri = 2 /\ ncolsX = 3
    /\ ReturnedEmpty

(***************************************************************************)
(* C12.  As claimed: a call in which one of TRI and X is empty and the     *)
(* other is not ends with a validation error.                              *)
(***************************************************************************)
EmptyMismatch == mxIsEmpty(TRI, ncolsTri) # mxIsEmpty(X, ncolsX)

C12_MismatchIsError ==
    (EmptyMismatch /\ pc # "start") => (pc = "error" /\ err # "none")

\* C12, amended: a call in which one of TRI and X is empty and the other is
\* not raises no error, not even when the non-empty one has a wrong number of
\* columns: it returns empty outputs like every call with an empty input.
C12_MismatchGivesEmptyOutput ==
    EmptyMismatch =>
        /\ pc \in {"start", "done"}
        /\ err = "none"
        /\ pc = "done" =>
              /\ fn = "cgal_check_self_intersect" => outC = "empty"
              /\ fn = "cgal_closest_trifacet" =>
                    \A o \in OutputNames : out[o] = "empty"

\* cgal_check_self_intersect returned an empty output for an empty X and a
\* TRI with one row of two columns
C12_Witness ==
    /\ fn = "cgal_check_self_intersect"
    /\ TRI # <<>> /\ ncolsTri = 2
    /\ X = <<>>
    /\ pc = "done"
    /\ outC = "empty"
    /\ err = "none"

(***************************************************************************)
(* C13.  With ITRI omitted the list of triangles to check is 1..N in       *)
(* increasing order, and the loop processes every triangle exactly once,   *)
(* in that order: the position in the list only moves forward by one, the  *)
(* triangle at position k is triangle k, the triangles before it have      *)
(* their count of one check and the triangles after it still have 0.       *)
(***************************************************************************)
\* the call is in or after the loop over the triangles, without a crash
InLoop == fn = "cgal_check_self_intersect" /\ pc \in {"loop", "records", "done"}
                /\ outC = "vector"

C13_DefaultListInOrder ==
    /\ []((fn = "cgal_check_self_intersect" /\ ~ITRI.provided
              /\ pc \in {"read", "tree", "alloc", "loop", "records"})
             => itri = [j \in 1..nrowsTri |-> j])
    /\ []((InLoop /\ ~ITRI.provided) =>
             /\ itri = [j \in 1..nrowsTri |-> j]
             /\ k \in 1..(nrowsTri + 1)
             /\ pc = "done" => k = nrowsTri + 1
             /\ pc = "records" => k <= nrowsTri
             /\ \A t \in 1..nrowsTri :
                   /\ (t < k /\ KernelDefined(t)) => n[t] = PerQuery(t)
                   /\ (t > k \/ (t = k /\ pc = "loop")) => n[t] = 0)
    /\ [][(InLoop /\ ~ITRI.provided) => (k' = k \/ k' = k + 1)]_vars

\* a call without ITRI returned the counts of two overlapping triangles
C13_Witness ==
    /\ Returned
    /\ ~ITRI.provided
    /\ nrowsTri = 2
    /\ itri = <<1, 2>>
    /\ k = 3
    /\ ~IsDegenerate3(triangles[1])
    /\ ~IsDegenerate3(triangles[2])
    /\ n = <<1, 1>>

(***************************************************************************)
(* C14.  For every test point i of cgal_closest_trifacet that has been     *)
(* processed, over a mesh of N triangles none of which is degenerate:      *)
(* IDX(i) is in 1..N and is the position in triangles of the primitive     *)
(* returned by the tree, P(i,:) lies on triangle IDX(i), D(i) is the       *)
(* distance between XI(i,:) and P(i,:) (d holds its square, which is       *)
(* >= 0), and no point of any triangle of the mesh is closer to XI(i,:).   *)
(* For the square [0,2] x [0,2] of z = 0 split in two triangles (the unit  *)
(* square scaled by 2) and the point (1, 1, 2): D = 2 and P = (1, 1, 0).   *)
(***************************************************************************)
\* c is the point of the convex set U closest to q: c is on U and no vertex
\* of U lies on the side of q of the plane through c orthogonal to q - c
IsClosestOn(c, U, q) ==
    /\ HasOn(U, c)
    /\ \A j \in 1..3 : Dot(Rel(c, q), Rel(c, U[j])) <= 0

\* no point of a triangle of the mesh is closer to q than the square root of
\* d2: the closest point of every triangle is at least that far
NoneCloser(d2, q) ==
    \A u \in 1..Len(triangles) :
        \E c \in {ClosestOnTriangle(triangles[u], q)} :
            /\ IsClosestOn(c, triangles[u], q)
            /\ LessEq(d2, SquaredDistance(c, q))

\* cgal_closest_trifacet is in or after its loop over the points, with a mesh
\* inside the precondition of the kernel
InPoints ==
    /\ fn = "cgal_closest_trifacet"
    /\ pc \in {"points", "done", "interrupted"}
    /\ accel
    /\ \A u \in 1..Len(triangles) : ~IsDegenerate3(triangles[u])

C15_NothingComputedUnrequested ==
    fn = "cgal_closest_trifacet" =>
        /\ "IDX" \notin requested =>
              (out["IDX"] = "none" /\ fbuf = <<>>)
        /\ "D" \notin requested =>
              (out["D"] = "none" /\ dbuf = <<>>)
        /\ "P" \notin requested =>
              (out["P"] = "none" /\ pbuf = <<>>)
        /\ requested = {} => pp = <<>>

(***************************************************************************)
(* C16.  In cgal_closest_trifacet the structure that accelerates distance  *)
(* queries is built exactly once, after the tree and before the outputs    *)
(* are allocated and the first query is run.  If it cannot be allocated    *)
(* the call ends with an error that is none of the validation errors, with *)
(* no output allocated and no query run.                                   *)
(***************************************************************************)
ValidationErrors ==
    { "All input arguments must have 3 columns",
      "Parameter TRI: Vertex index is NaN",
      "Parameter X: row index out of range" }

AccelerationError == "Not enough memory to accelerate distance queries"

NothingAllocated ==
    /\ \A o \in OutputNames : out[o] # "array"
    /\ fbuf = <<>> /\ dbuf = <<>> /\ pbuf = <<>>

C16_AcceleratorBuiltOnce ==
    /\ [](fn = "cgal_closest_trifacet" =>
             /\ accel => (Len(tree) = nrowsTri /\ nrowsTri > 0)
             /\ pc = "accel" => (~accel /\ Len(tree) = nrowsTri)
             /\ ~accel => (NothingAllocated /\ pp = <<>> /\ ixi = 1)
             /\ pc \in {"outputs", "points"} => accel
             /\ err = AccelerationError =>
                   /\ pc = "error"
                   /\ ~accel
                   /\ \A o \in OutputNames : out[o] = "none"
                   /\ err \notin ValidationErrors)
    /\ [][accel' # accel => (pc = "accel" /\ ~accel /\ accel' /\ pc' = "outputs")]_vars
    /\ [][(pc' = "accel" /\ pc # "accel") => (pc = "tree" /\ tree' # <<>>)]_vars

\* the call ended with the error of the accelerator, the tree being built
C16_Witness ==
    /\ fn = "cgal_closest_trifacet"
    /\ pc = "error"
    /\ err = AccelerationError
    /\ Len(tree) = 2
    /\ NothingAllocated
    /\ pp = <<>>

(***************************************************************************)
(* C17.  After Ctrl+C at iteration k, the result of every triangle checked *)
(* in an iteration before k is the value that the run without the          *)
(* interrupt gives for that triangle, and every test point handled before  *)
(* the interrupt holds its facet, distance and closest point.              *)
(***************************************************************************)
\* cgal_check_self_intersect was interrupted in its loop over the queries, on
\* a list and a mesh for which the run is determined
InterruptedInLoop ==
    /\ fn = "cgal_check_self_intersect"
    /\ pc = "interrupted"
    /\ outC = "vector"
    /\ QueryInRange
    /\ \A t \in 1..Len(triangles) : KernelDefined(t)

\* cgal_closest_trifacet was interrupted in its loop over the test points
InterruptedInPoints == InPoints /\ pc = "interrupted" /\ requested = OutputNames

C17_CompletedResultsAreFinal ==
    /\ InterruptedInLoop =>
          \A j \in 1..(k - 1) : n[itri[j]] = RunQueries(itri)[itri[j]]
    /\ InterruptedInPoints =>
          \A i \in 1..(ixi - 1) :
              /\ fbuf[i] \in 1..nrowsTri
              /\ HasOn(triangles[fbuf[i]], pbuf[i])
              /\ dbuf[i] = SquaredDistance(pbuf[i], XI[i])
              /\ NoneCloser(dbuf[i], XI[i])

(***************************************************************************)
(* C18.  A call that fails never returns results.  A wrong number of       *)
(* columns, a NaN vertex index and a failed allocation of the accelerator  *)
(* each end the call in the error state, with a message, with no count     *)
(* vector and no result array allocated; a call that returns has no error  *)
(* recorded, so the two outcomes cannot be confused.                       *)
(***************************************************************************)
\* an input has a number of columns that is not 3
WrongColumns ==
    \/ ncolsTri # 3
    \/ ncolsX # 3
    \/ fn = "cgal_closest_trifacet" /\ ncolsXi # 3

\* row j of TRI holds a NaN
HasNaN(j) == \E c \in 1..3 : TRI[j][c].nan

\* no count vector and no result array exists
NoResults ==
    /\ NoOutput
    /\ n = <<>>
    /\ fbuf = <<>> /\ dbuf = <<>> /\ pbuf = <<>>

C18_FailedCallReturnsNothing ==
    /\ pc = "error" => (err # "none" /\ NoResults)
    /\ err # "none" => pc = "error"
    /\ (NoInputEmpty /\ WrongColumns /\ pc # "start") =>
          (pc = "error" /\ err = "All input arguments must have 3 columns")
    /\ \A j \in 1..nrowsTri :
          (NoInputEmpty /\ ~WrongColumns /\ HasNaN(j)) =>
              /\ Len(triangles) < j
              /\ pc \notin {"done", "tree", "alloc", "loop", "records",
                            "accel", "outputs", "points"}
              /\ NoResults
    /\ err = AccelerationError => (accel = FALSE /\ tree # <<>>)
    /\ (outC = "vector" \/ \E o \in OutputNames : out[o] = "array") =>
          (err = "none" /\ pc # "error")

\* cgal_check_self_intersect stopped on a TRI of two columns
C18_Witness ==
    /\ fn = "cgal_check_self_intersect"
    /\ TRI # <<>>
    /\ ncolsTri = 2
    /\ pc = "error"
    /\ err = "All input arguments must have 3 columns"
    /\ NoResults

(***************************************************************************)
(* C19.  As claimed: no exact intersection test involves a degenerate      *)
(* triangle (one with two equal vertices), neither as the triangle that is *)
(* checked nor as a primitive of the tree it is tested against.            *)
(***************************************************************************)
\* the primitives that tree.all_intersections(*it, ...) tests against the
\* triangle: a tree of one or two primitives tests each of them, a larger one
\* those whose bounding box meets the box of the triangle
BoxesMeet(T, U) ==
    \A c \in 1..3 :
        \E a, b \in 1..3 : \E d, e \in 1..3 :
            T[a][c] <= U[d][c] /\ U[e][c] <= T[b][c]

TestedPrimitives(t) ==
    {u \in 1..Len(tree) :
        Len(tree) <= 2 \/ BoxesMeet(triangles[t], triangles[u])}

C19_NoDegenerateTriangleTested ==
    (fn = "cgal_check_self_intersect" /\ pc = "records") =>
        /\ ~HasEqualVertices(triangles[itri[k]])
        /\ \A u \in TestedPrimitives(itri[k]) :
              ~HasEqualVertices(triangles[u])

(***************************************************************************)
(* C20.  As claimed: no count is negative when a call with a valid list    *)
(* returns, whatever the mesh, and when 1 is subtracted at the end of the  *)
(* loop over the intersections, the triangle has been found to intersect   *)
(* itself and counted for it.                                              *)
(***************************************************************************)
\* the list of intersections of the checked triangle holds its match with
\* itself, as a triangle
HasIdentityMatch ==
    \E j \in 1..Len(intersections) :
        /\ intersections[j].prim = itri[k]
        /\ intersections[j].kind = "triangle"

C20_CountsNeverNegative ==
    /\ (Returned /\ QueryInRange) => \A t \in 1..Len(n) : n[t] >= 0
    /\ (fn = "cgal_check_self_intersect" /\ pc = "records") => HasIdentityMatch

(***************************************************************************)
(* C21.  A validation error (an input without 3 columns, a NaN or          *)
(* otherwise invalid vertex index) is raised while the inputs are tested   *)
(* or the mesh is read: at that moment the tree is not constructed, no     *)
(* output is allocated and no query has been issued.                       *)
(***************************************************************************)
\* nothing geometric has been done: no tree, no accelerator, no query
NothingProcessed ==
    /\ tree = <<>>
    /\ ~accel
    /\ intersections = <<>>
    /\ pp = <<>>
    /\ k = 1 /\ itx = 1 /\ ixi = 1

C21_ValidationPrecedesProcessing ==
    /\ [](err \in ValidationErrors =>
             (pc = "error" /\ NothingProcessed /\ NoResults))
    /\ []((tree # <<>> \/ outC = "vector"
              \/ \E o \in OutputNames : out[o] = "array") =>
             (~WrongColumns /\ \A j \in 1..nrowsTri : ~HasNaN(j)))
    /\ [][(err = "none" /\ err' \in ValidationErrors) =>
             (pc \in {"start", "read"} /\ NothingProcessed /\ NoResults)]_vars

\* cgal_closest_trifacet stopped at a NaN in the second row of TRI, with one
\* triangle read and no tree
C21_Witness ==
    /\ fn = "cgal_closest_trifacet"
    /\ err \in ValidationErrors
    /\ nrowsTri = 2
    /\ HasNaN(2)
    /\ Len(triangles) = 1
    /\ NothingProcessed

(***************************************************************************)
(* C22.  Ctrl+C is tested once in every iteration of the loop over the     *)
(* triangles to check and of the loop over the test points, at the start   *)
(* of the iteration: before its query and before anything is written.  An  *)
(* interrupt seen there ends the call: no count and no result element      *)
(* changes in that iteration or later.                                     *)
(***************************************************************************)
\* an iteration of one of the two loops is about to start
IterationStarts ==
    \/ fn = "cgal_check_self_intersect" /\ pc = "loop" /\ k <= Len(itri)
    \/ fn = "cgal_closest_trifacet" /\ pc = "points" /\ ixi <= Len(XI)

\* the counts, the results and what the queries returned
results == <<outC, n, out, fbuf, dbuf, pbuf, intersections, itx, pp, k, ixi>>

C22_InterruptTestedBeforeQuery ==
    /\ [](IterationStarts => ENABLED CtrlC)
    /\ [](pc = "records" => ~ENABLED CtrlC)
    /\ [][(pc' = "interrupted" /\ pc # "interrupted") =>
             (pc \in {"read", "loop", "points"} /\ UNCHANGED results)]_vars
    /\ [][(pc \in {"loop", "points"} /\ results' # results
              /\ pc' \notin {"done", "crashed"}) =>
             IterationStarts]_vars
    /\ [][pc = "interrupted" => UNCHANGED vars]_vars

\* cgal_check_self_intersect was interrupted at its second iteration, after
\* the first one counted an intersection
C22_Witness ==
    /\ fn = "cgal_check_self_intersect"
    /\ pc = "interrupted"
    /\ outC = "vector"
    /\ QueryInRange
    /\ Len(itri) = 2
    /\ k = 2
    /\ n[itri[1]] = 1
    /\ n[itri[2]] = 0

(***************************************************************************)
(* C23.  The tree is constructed once in a call, over all the triangles,   *)
(* after the last triangle is read and before the first query; once it is  *)
(* constructed, the triangles and the tree stay as they are to the end of  *)
(* the call.                                                               *)
(***************************************************************************)
\* a query of the tree has been issued
Queried == intersections # <<>> \/ pp # <<>> \/ pc = "records" \/ k > 1 \/ ixi > 1

C23_TreeBuiltOnceThenReadOnly ==
    /\ [](pc \in {"alloc", "accel", "outputs", "loop", "records", "points"} =>
             /\ Len(triangles) = nrowsTri
             /\ tree = [j \in 1..nrowsTri |-> j]
             /\ tree # <<>>)
    /\ [](Queried => (tree # <<>> /\ Len(tree) = nrowsTri))
    /\ [][tree' # tree =>
             /\ pc = "tree"
             /\ tree = <<>>
             /\ ~Queried
             /\ Len(triangles) = nrowsTri
             /\ tree' = [j \in 1..nrowsTri |-> j]
             /\ triangles' = triangles]_vars
    /\ [][tree # <<>> => (tree' = tree /\ triangles' = triangles)]_vars

\* cgal_closest_trifacet returned after two queries of a tree of two
\* triangles
C23_Witness ==
    /\ fn = "cgal_closest_trifacet"
    /\ pc = "done"
    /\ tree = <<1, 2>>
    /\ Len(triangles) = 2
    /\ Len(XI) = 2
    /\ ixi = 3

(***************************************************************************)
(* C24.  A record of the list of intersections adds 0 or 1 to the count of *)
(* the triangle that is checked and changes no other count: a record holds *)
(* one shape, so at most one of the triangle, segment and point branches   *)
(* acts on it, and a record that holds none of the three shapes (the       *)
(* polygon of a coplanar overlap) adds nothing.                            *)
(***************************************************************************)
\* the step handles one record of the list
ClassifiesRecord ==
    /\ pc = "records"
    /\ itx <= Len(intersections)
    /\ itx' = itx + 1

C24_RecordAddsAtMostOne ==
    /\ [](pc = "records" =>
             \A j \in 1..Len(intersections) :
                 /\ intersections[j].kind \in
                        {"point", "segment", "triangle", "polygon"}
                 /\ Classify(intersections[j], triangles[itri[k]]) \in {0, 1})
    /\ [][ClassifiesRecord =>
             \E d \in {0, 1} : n' = [n EXCEPT ![itri[k]] = @ + d]]_vars
    /\ [][Classifies("triangle") => n'[itri[k]] = n[itri[k]] + 1]_vars
    /\ [][Classifies("polygon") => n' = n]_vars

\* the two records of a triangle have been handled: the match with itself
\* added one, the polygon of an overlap added nothing
C24_Witness ==
    /\ pc = "records"
    /\ Len(intersections) = 2
    /\ itx = 3
    /\ \E j \in 1..2 : intersections[j].kind = "polygon"
    /\ \E j \in 1..2 : intersections[j].kind = "triangle"
    /\ n[itri[k]] = 1

(***************************************************************************)
(* C25.  As claimed: the count of a triangle is the same however many      *)
(* times its index is in the list of triangles to check; listed twice, a   *)
(* triangle has the count it has when listed once.                         *)
(***************************************************************************)
C25_CountIndependentOfRepetition ==
    (Returned /\ QueryInRange /\ \A t \in 1..nrowsTri : KernelDefined(t)) =>
        \A t \in 1..nrowsTri :
            Occurrences(itri, t) >= 1 => n[t] = RunQueries(<<t>>)[t]

(***************************************************************************)
(* C26.  The vector of counts starts with all its elements 0, an iteration *)
(* of the loop writes only the element of the triangle it checks, and when *)
(* the call returns every triangle that is not in the list has count 0.    *)
(***************************************************************************)
\* the entries of the list whose iteration has started
Started ==
    {itri[j] : j \in 1..(IF pc = "records" THEN k
                         ELSE IF k - 1 < Len(itri) THEN k - 1 ELSE Len(itri))}

C26_OnlyCheckedElementsWritten ==
    /\ [][(outC # "vector" /\ outC' = "vector") =>
             n' = [t \in 1..nrowsTri |-> 0]]_vars
    /\ [][(outC = "vector" /\ QueryInRange /\ n' # n) =>
             /\ pc \in {"loop", "records"}
             /\ k <= Len(itri)
             /\ \A t \in 1..nrowsTri : t # itri[k] => n'[t] = n[t]]_vars
    /\ []((InLoop /\ QueryInRange) =>
             \A t \in 1..nrowsTri : t \notin Started => n[t] = 0)
    /\ []((Returned /\ QueryInRange) =>
             \A t \in 1..nrowsTri : Occurrences(itri, t) = 0 => n[t] = 0)

\* of two triangles that overlap only the first was checked: it has count 1
\* and the second has count 0
C26_Witness ==
    /\ Returned
    /\ nrowsTri = 2
    /\ itri = <<1>>
    /\ ~IsDegenerate3(triangles[1])
    /\ ~IsDegenerate3(triangles[2])
    /\ n = <<1, 0>>

(***************************************************************************)
(* C27.  The count of a triangle that is in the list once is a function of *)
(* the mesh alone: the triangle is tested against every triangle of the    *)
(* mesh, in the list or not, so every call on the same TRI and X returns   *)
(* the same count for it whatever else the list holds.                     *)
(***************************************************************************)
\* triangle j of the mesh given by the inputs TRI and X
MeshTriangle(j) == <<X[TRI[j][1].val], X[TRI[j][2].val], X[TRI[j][3].val]>>

\* the triangles of the mesh that meet triangle t
Meeting(t) ==
    {u \in 1..nrowsTri : ExactRecord(t, u).kind # "none"}

C27_CountDependsOnMeshOnly ==
    /\ (fn = "cgal_check_self_intersect" /\ MeshRead) =>
          triangles = [j \in 1..nrowsTri |-> MeshTriangle(j)]
    /\ (fn = "cgal_check_self_intersect" /\ pc = "records"
           /\ KernelDefined(itri[k])) =>
          {intersections[j].prim : j \in 1..Len(intersections)}
              = Meeting(itri[k])
    /\ (Returned /\ QueryInRange) =>
          \A t \in 1..nrowsTri :
              (Occurrences(itri, t) = 1 /\ KernelDefined(t)) =>
                  n[t] = PerQuery(t)

\* the second of two triangles is checked alone and the list of its
\* intersections holds the first one
C27_Witness ==
    /\ fn = "cgal_check_self_intersect"
    /\ pc = "records"
    /\ nrowsTri = 2
    /\ itri = <<2>>
    /\ ~IsDegenerate3(triangles[1])
    /\ ~IsDegenerate3(triangles[2])
    /\ \E j \in 1..Len(intersections) : intersections[j].prim = 1

(***************************************************************************)
(* C28.  The classification is symmetric: for two different non-degenerate *)
(* triangles T and U, the record of T with U adds 1 to the count of T      *)
(* exactly when the record of U with T adds 1 to the count of U; checked   *)
(* once each in a mesh of two, they get the same count.                    *)
(***************************************************************************)
\* what the record of triangle t with triangle u adds to the count of t
Adds(t, u) == Classify(ExactRecord(t, u), triangles[t])

Skips ==
    /\ fn = "cgal_check_self_intersect"
    /\ pc = "loop" /\ pc' = "loop"
    /\ k' = k + 1
    /\ ~oob'
    /\ QueryInRange

C29_ListHoldsCurrentRecordsOnly ==
    /\ []((fn = "cgal_check_self_intersect" /\ pc = "records") =>
             /\ Len(intersections) <= Len(tree)
             /\ \A i, j \in 1..Len(intersections) :
                    i < j => intersections[i].prim < intersections[j].prim)
    /\ [][(pc = "loop" /\ pc' = "records") =>
             (itx' = 1 /\ intersections' \in AllIntersections(itri[k]))]_vars
    /\ [][pc = "records" => intersections' = intersections]_vars
    /\ [][Skips =>
             /\ HasEqualVertices(triangles[itri[k]])
             /\ n' = [n EXCEPT ![itri[k]] = @ + 1]
             /\ intersections' = intersections]_vars

\* the first triangle was checked and left its records in the list, then the
\* second one, which has two equal vertices, was skipped with count 1
C29_Witness ==
    /\ Returned
    /\ nrowsTri = 2
    /\ itri = <<1, 2>>
    /\ ~IsDegenerate3(triangles[1])
    /\ HasEqualVertices(triangles[2])
    /\ intersections # <<>>
    /\ n[2] = 1

(***************************************************************************)
(* C30.  Every call ends.  A call that returns has run one iteration of    *)
(* its outer loop per entry of the list of triangles to check (per test    *)
(* point in cgal_closest_trifacet), no more and no fewer, the iterations   *)
(* are numbered one by one, and the list of records handled in an          *)
(* iteration has at most one record per triangle of the mesh.              *)
(***************************************************************************)
\* the call is over: it returned, raised an error, was interrupted, or the
\* process died
Over == pc \in {"done", "error", "interrupted", "crashed"}

\* the inputs pass the validation and the queries stay inside the arrays and
\* inside the precondition of the kernel
WellFormedCall ==
    /\ NoInputEmpty
    /\ ~WrongColumns
    /\ \A j \in 1..nrowsTri : RowIsValid(TRI[j])
    /\ ITRI.provided => \A j \in 1..Len(ITRI.v) : ITRI.v[j] \in 1..nrowsTri
    /\ \A j \in 1..nrowsTri : ~IsDegenerate3(MeshTriangle(j))

C30_CallTerminates ==
    /\ <>Over
    /\ []((WellFormedCall /\ Over /\ pc # "interrupted" /\ err = "none") =>
             pc = "done")
    /\ [](Returned => k = Len(itri) + 1)
    /\ []((fn = "cgal_closest_trifacet" /\ pc = "done" /\ NoInputEmpty) =>
             ixi = Len(XI) + 1)
    /\ [](pc = "records" =>
             (Len(intersections) <= nrowsTri /\ itx <= Len(intersections) + 1))
    /\ [][k' \in {k, k + 1} /\ ixi' \in {ixi, ixi + 1}]_vars
    /\ [][pc = "done" => UNCHANGED vars]_vars

\* the call on the fan of three triangles returned after three iterations,
\* the last with three records
C30_Witness ==
    /\ Returned
    /\ nrowsTri = 3
    /\ Len(itri) = 3
    /\ k = 4
    /\ Len(intersections) = 3
    /\ itx = 4

====
